---- MODULE Spec2Model ----
(***************************************************************************)
(* mcp-ragchat: the file-based vector store (src/src/vector-store.ts), the *)
(* chat HTTP server (src/src/chat-server.ts) and the MCP tool handlers     *)
(* (src/src/mcp-server.ts) as a state machine.                             *)
(*                                                                         *)
(* One action is one run-to-completion segment of JavaScript: a handler    *)
(* from its start to its first await, or from one await to the next.  The  *)
(* fs calls are the synchronous ones (readFileSync, writeFileSync), so a   *)
(* store operation is one segment inside a process; between processes     *)
(* that share the store directory every fs call is a step of its own.      *)
(*                                                                         *)
(* Scores are kept exact: a cosine c is represented by the rational        *)
(* sgn(c) * c^2, an order-preserving encoding that needs no square root.   *)
(* The vectors and the score floors drawn below are such that the floating *)
(* point evaluation of the source orders them the same way.                *)
(***************************************************************************)
EXTENDS Integers, Sequences, FiniteSets, TLC

VARIABLES
    dirs,          \* the directories under BASE_DIR that exist
    vectorsFile,   \* directory -> contents of vectors.json, or NoFile
    configFile,    \* directory -> contents of config.json, or NoConfig
    lastCall,      \* the last store call that returned: its arguments and result
    proc,          \* server process -> the addDocument call it is in, between its fs calls
    ncalls,        \* addDocument calls started by the server processes
    servers,       \* port -> the http.Server of this process listening on it, or NoServer
    activeServer,  \* chat-server.ts:28  the port of that server, 0 for null
    tickQueue,     \* 'listening' and 'error' events emitted and not yet delivered
    calls,         \* ragchat_serve calls: their number, the ports they asked for, the promise settled last
    portEnv,       \* port -> what the operating system answers to a bind
    req,           \* the chat exchange being handled (HTTP or ragchat_test)
    setups         \* ragchat_setup call -> where it is, between its awaits

storeVars == <<dirs, vectorsFile, configFile>>
procVars == <<proc, ncalls>>
serveVars == <<servers, activeServer, tickQueue, calls, portEnv, req>>
vars == <<dirs, vectorsFile, configFile, lastCall, proc, ncalls,
          servers, activeServer, tickQueue, calls, portEnv, req, setups>>

----------------------------------------------------------------------------
(* Bounds *)

MaxId == 2        \* document ids are <domain>-1 .. <domain>-MaxId
MaxLimit == 3     \* search limits drawn from 0..MaxLimit
NumProcs == 2     \* server processes sharing the store directory
MaxCalls == 3     \* addDocument calls the server processes start
MaxPort == 2      \* ports are 1..MaxPort; listen() throws on a larger one
MaxStarts == 2    \* ragchat_serve calls
MaxSetups == 2    \* ragchat_setup calls
MaxTurns == 11    \* turns of a supplied history, where the history is the subject
MaxDim == 2       \* vectors have 0..MaxDim components, where the score is the subject
MaxText == 3      \* length of the varied part of a text, where sanitize is the subject

----------------------------------------------------------------------------
(* Values *)

\* No vectors.json.  A file that exists holds at least one document, since
\* saveVectors runs only after a replace or a push.
NoFile == <<>>
NoConfig == [exists |-> FALSE]

\* Domain names, as sequences of characters.  "b/" and "b_" differ only in a
\* character that domainDir replaces; "." passes the replacement unchanged.
Domains == { <<"a">>, <<"b", "/">>, <<"b", "_">>, <<".">> }

AllowedChars == { "a", "b", ".", "-" }

\* vector-store.ts:29  domain.replace(/[^a-zA-Z0-9.-]/g, "_")
DirName(domain) ==
    [i \in 1..Len(domain) |-> IF domain[i] \in AllowedChars THEN domain[i] ELSE "_"]

DirNames == { DirName(d) : d \in Domains }

\* vector-store.ts:28-32  domainDir creates the directory when it is missing
domainDir(ds, domain) == ds \cup { DirName(domain) }

\* vector-store.ts:29  path.join(BASE_DIR, ".") is BASE_DIR: the directory of
\* the name "." is the store directory itself, which holds every other one.
BaseDir == <<".">>

\* vector-store.ts:151  the directories that go with the directory d when it
\* is removed with all it holds
Inside(d) == IF d = BaseDir THEN DirNames ELSE { d }

\* Passages: title, content and embedding of a section.  Against the query
\* <<1, 1>> the first two score the same; a passage stored under two ids ties
\* with itself for every query.
Passages ==
    { [title |-> "t1", content |-> "c1", embedding |-> <<1, 0>>],
      [title |-> "t2", content |-> "c2", embedding |-> <<0, 1>>],
      [title |-> "t3", content |-> "c3", embedding |-> <<2, 1>>] }

DocIds(domain) == { <<domain, i>> : i \in 1..MaxId }

\* vector-store.ts:13-19  VectorDocument (createdAt, a timestamp, is left out)
MkDoc(id, p) ==
    [id |-> id, title |-> p.title, content |-> p.content, embedding |-> p.embedding]

Queries == { <<1, 0>>, <<1, 1>> }

\* Score floors in the encoding of scores: 0.3 (the default, 0.09 squared) and 0.8.
DefaultMinScore == [n |-> 9, d |-> 100]
MinScores == { DefaultMinScore, [n |-> 16, d |-> 25] }

----------------------------------------------------------------------------
(* Rational scores *)

ScoreLeq(x, y) == x.n * y.d <= y.n * x.d
ScoreLt(x, y) == x.n * y.d < y.n * x.d
ScoreEq(x, y) == x.n * y.d = y.n * x.d

RECURSIVE DotFrom(_, _, _)
DotFrom(a, b, i) ==
    IF i > Len(a) THEN 0 ELSE a[i] * b[i] + DotFrom(a, b, i + 1)

\* A score without the comparison of the lengths: the sums run over the
\* components both vectors have.
CosineNoLengthCheck(a, b) ==
    LET n == IF Len(a) < Len(b) THEN Len(a) ELSE Len(b)
        dotProduct == DotFrom(SubSeq(a, 1, n), SubSeq(b, 1, n), 1)
        normA == DotFrom(a, a, 1)
        normB == DotFrom(b, b, 1)
    IN  IF normA * normB = 0 THEN [n |-> 0, d |-> 1]
        ELSE [n |-> (IF dotProduct < 0 THEN -1 ELSE 1) * dotProduct * dotProduct,
              d |-> normA * normB]

\* vector-store.ts:68-80
cosineSimilarity(a, b) ==
    IF Len(a) # Len(b) THEN [n |-> 0, d |-> 1]
    ELSE LET dotProduct == DotFrom(a, b, 1)
             normA == DotFrom(a, a, 1)
             normB == DotFrom(b, b, 1)
         IN  IF normA * normB = 0 THEN [n |-> 0, d |-> 1]
             ELSE [n |-> (IF dotProduct < 0 THEN -1 ELSE 1) * dotProduct * dotProduct,
                   d |-> normA * normB]

----------------------------------------------------------------------------
(* Store operations *)

\* vector-store.ts:43-47
loadVectors(domain) ==
    IF vectorsFile[DirName(domain)] = NoFile THEN <<>> ELSE vectorsFile[DirName(domain)]

\* vector-store.ts:115-121  NoConfig stands for null
loadDomainConfig(domain) == configFile[DirName(domain)]

\* vector-store.ts:61  docs.findIndex((d) => d.id === doc.id); 0 stands for -1
FindIndex(docs, id) ==
    IF \E i \in 1..Len(docs) : docs[i].id = id
    THEN CHOOSE i \in 1..Len(docs) :
             /\ docs[i].id = id
             /\ \A j \in 1..(i - 1) : docs[j].id # id
    ELSE 0

UpsertAlwaysPush(docs, doc) == Append(docs, doc)

\* An upsert that, on replacing a document, drops the documents after it.
UpsertDropsRest(docs, doc) ==
    LET idx == FindIndex(docs, doc.id)
    IN  IF idx >= 1 THEN Append(SubSeq(docs, 1, idx - 1), doc) ELSE Append(docs, doc)

\* vector-store.ts:59-63
Upsert(docs, doc) ==
    LET idx == FindIndex(docs, doc.id)
    IN  IF idx >= 1 THEN [docs EXCEPT ![idx] = doc] ELSE Append(docs, doc)

\* vector-store.ts:93-98
Scored(docs, q) ==
    [i \in 1..Len(docs) |->
        [id |-> docs[i].id, title |-> docs[i].title, content |-> docs[i].content,
         score |-> cosineSimilarity(q, docs[i].embedding)]]

RECURSIVE FilterMinScore(_, _)
\* vector-store.ts:99
FilterMinScore(rs, minScore) ==
    IF rs = <<>> THEN <<>>
    ELSE LET rest == FilterMinScore(Tail(rs), minScore)
         IN  IF ScoreLeq(minScore, Head(rs).score) THEN <<Head(rs)>> \o rest ELSE rest

\* Where a stable descending sort puts x among the already sorted rs: after
\* every element whose score is not smaller.
InsertStable(rs, x) ==
    LET p == Cardinality({ i \in 1..Len(rs) : ScoreLeq(x.score, rs[i].score) })
    IN  SubSeq(rs, 1, p) \o <<x>> \o SubSeq(rs, p + 1, Len(rs))

InsertBeforeTies(rs, x) ==
    LET p == Cardinality({ i \in 1..Len(rs) : ScoreLt(x.score, rs[i].score) })
    IN  SubSeq(rs, 1, p) \o <<x>> \o SubSeq(rs, p + 1, Len(rs))

RECURSIVE SortByScoreWith(_, _)
SortByScoreWith(rs, stable) ==
    IF rs = <<>> THEN <<>>
    ELSE LET front == SortByScoreWith(SubSeq(rs, 1, Len(rs) - 1), stable)
         IN  IF stable THEN InsertStable(front, rs[Len(rs)])
             ELSE InsertBeforeTies(front, rs[Len(rs)])

SortAscending(rs) ==
    LET s == SortByScoreWith(rs, TRUE)
    IN  [i \in 1..Len(s) |-> s[Len(s) + 1 - i]]

SortUnstable(rs) == SortByScoreWith(rs, FALSE)

\* vector-store.ts:100  .sort((a, b) => b.score - a.score), a stable sort
SortByScore(rs) == SortByScoreWith(rs, TRUE)

\* vector-store.ts:101  .slice(0, limit), limit >= 0
Slice(rs, limit) == SubSeq(rs, 1, IF limit < Len(rs) THEN limit ELSE Len(rs))

\* vector-store.ts:83-104
searchByEmbedding(docs, queryEmbedding, limit, minScore) ==
    IF Len(docs) = 0 THEN <<>>
    ELSE Slice(SortByScore(FilterMinScore(Scored(docs, queryEmbedding), minScore)), limit)

----------------------------------------------------------------------------
(* Actions of the store *)

NoCall == [op |-> "none"]

Procs == 1..NumProcs
Idle == [pc |-> "idle"]

ProcsIdle ==
    /\ proc = [p \in Procs |-> Idle]
    /\ ncalls = 0

NoReq == [pc |-> "none"]

Ports == 1..MaxPort

NoServer == [state |-> "none"]

\* The promise of the startChatServer or ragchat_serve call that settled last.
Settled(c, state, port, error) ==
    [call |-> c, state |-> state, resultPort |-> port, error |-> error]

NoneSettled == Settled(0, "none", 0, "")

SetupCalls == 1..MaxSetups

IdleSetup == [pc |-> "idle"]

\* No ragchat_setup call has been made.
IngestIdle == setups = [k \in SetupCalls |-> IdleSetup]

\* Note, in every ragchat_setup call other than k that is between its awaits
\* on the directory of domain, that something else wrote to that directory.
Interfere(ss, k, domain) ==
    [j \in DOMAIN ss |->
        IF j # k /\ ss[j].pc = "embedding" /\ DirName(ss[j].domain) = DirName(domain)
        THEN [ss[j] EXCEPT !.interfered = TRUE]
        ELSE ss[j]]

\* No listener, no chat exchange, every port free.
ServeIdle ==
    /\ servers = [p \in Ports |-> NoServer]
    /\ activeServer = 0
    /\ tickQueue = <<>>
    /\ calls = [started |-> 0, settled |-> NoneSettled, requested |-> <<>>]
    /\ portEnv = [p \in Ports |-> "free"]
    /\ req = NoReq

\* vector-store.ts:55-65  addDocument, inside one process
AddDocument(domain, doc) ==
    /\ dirs' = domainDir(dirs, domain)
    /\ vectorsFile' = [vectorsFile EXCEPT ![DirName(domain)] = Upsert(loadVectors(domain), doc)]
    /\ lastCall' = [op |-> "addDocument", domain |-> domain, doc |-> doc]
    /\ UNCHANGED <<configFile, procVars, setups, serveVars>>

\* vector-store.ts:83-104  searchByEmbedding
SearchByEmbedding(domain, q, limit, minScore) ==
    /\ dirs' = domainDir(dirs, domain)
    /\ lastCall' =
           [op |-> "searchByEmbedding", domain |-> domain, query |-> q,
            limit |-> limit, minScore |-> minScore,
            result |-> searchByEmbedding(loadVectors(domain), q, limit, minScore)]
    /\ UNCHANGED <<vectorsFile, configFile, procVars, setups, serveVars>>

\* A delete that removes config.json and leaves the rest of the directory.
DeleteConfigOnly(domain) ==
    /\ dirs' = domainDir(dirs, domain)
    /\ vectorsFile' = vectorsFile
    /\ configFile' = [configFile EXCEPT ![DirName(domain)] = NoConfig]
    /\ lastCall' = [op |-> "deleteDomain", domain |-> domain,
                    existed |-> DirName(domain) \in dirs]
    /\ setups' = Interfere(setups, 0, domain)
    /\ UNCHANGED <<procVars, serveVars>>

\* vector-store.ts:148-153  deleteDomain: domainDir makes the directory when
\* it is missing, rmSync removes it with everything in it.  existed records
\* whether the directory was there when the call was made.
DeleteDomain(domain) ==
    /\ dirs' = domainDir(dirs, domain) \ Inside(DirName(domain))
    /\ vectorsFile' = [d \in DirNames |->
                          IF d \in Inside(DirName(domain)) THEN NoFile ELSE vectorsFile[d]]
    /\ configFile' = [d \in DirNames |->
                         IF d \in Inside(DirName(domain)) THEN NoConfig ELSE configFile[d]]
    /\ lastCall' = [op |-> "deleteDomain", domain |-> domain,
                    existed |-> DirName(domain) \in dirs]
    /\ setups' = Interfere(setups, 0, domain)
    /\ UNCHANGED <<procVars, serveVars>>

\* A namespace seeded earlier: config and three documents; the first and the
\* third score the same against the query <<1, 1>>.
SeededDomain == <<"b", "_">>
SeededDocs ==
    << MkDoc(<<SeededDomain, 1>>, [title |-> "t1", content |-> "c1", embedding |-> <<1, 0>>]),
       MkDoc(<<SeededDomain, 2>>, [title |-> "t3", content |-> "c3", embedding |-> <<2, 1>>]),
       MkDoc(<<SeededDomain, 3>>, [title |-> "t2", content |-> "c2", embedding |-> <<0, 1>>]) >>
SeededConfig(domain) == [exists |-> TRUE, domain |-> domain, systemPrompt |-> "prompt1"]

\* The store directory as an earlier run left it: SeededDomain ingested, nothing else.
SeededStore ==
    /\ dirs = { DirName(SeededDomain) }
    /\ vectorsFile = [d \in DirNames |-> IF d = DirName(SeededDomain) THEN SeededDocs ELSE NoFile]
    /\ configFile = [d \in DirNames |->
                        IF d = DirName(SeededDomain) THEN SeededConfig(SeededDomain) ELSE NoConfig]

\* The namespace the store specification writes to, and the ones it searches.
WriteDomain == <<"a">>
SearchDomains == { WriteDomain, SeededDomain }

InitStore ==
    /\ SeededStore
    /\ lastCall = NoCall
    /\ ProcsIdle
    /\ ServeIdle
    /\ IngestIdle

NextStore ==
    \/ \E id \in DocIds(WriteDomain), p \in Passages : AddDocument(WriteDomain, MkDoc(id, p))
    \/ \E domain \in SearchDomains, q \in Queries, limit \in 0..MaxLimit, m \in MinScores :
           SearchByEmbedding(domain, q, limit, m)
    \/ DeleteDomain(WriteDomain)

SpecStore == InitStore /\ [][NextStore]_vars

----------------------------------------------------------------------------
(* Claims about the store *)

IsSearch == lastCall.op = "searchByEmbedding"

\* The documents the last search read: nothing has written since.
SearchedDocs == loadVectors(lastCall.domain)

ScoreOf(docs, i) == cosineSimilarity(lastCall.query, docs[i].embedding)

\* C1: searchByEmbedding returns at most limit results, each with a score not
\* below minScore, each a stored document of the namespace searched (with the
\* score of that document), in non-increasing score order.
C1_SearchBounded ==
    IsSearch =>
        LET r == lastCall.result
            docs == SearchedDocs
        IN  /\ Len(r) <= lastCall.limit
            /\ \A i \in 1..Len(r) : ScoreLeq(lastCall.minScore, r[i].score)
            /\ \A i \in 1..Len(r) : \E j \in 1..Len(docs) :
                   /\ r[i].id = docs[j].id
                   /\ r[i].title = docs[j].title
                   /\ r[i].content = docs[j].content
                   /\ r[i].score = ScoreOf(docs, j)
            /\ \A i, j \in 1..Len(r) : i < j => ScoreLeq(r[j].score, r[i].score)

\* A search of three documents that filled its limit of two with results of
\* different score, the floor excluding a document.
C1_Witness ==
    /\ IsSearch
    /\ Len(lastCall.result) = 2
    /\ lastCall.limit = 2
    /\ Len(SearchedDocs) = 3
    /\ ScoreLt(lastCall.result[2].score, lastCall.result[1].score)
    /\ \E j \in 1..Len(SearchedDocs) :
           ScoreLt(ScoreOf(SearchedDocs, j), lastCall.minScore)

\* The stored documents that qualify, and the rank of one among them: one more
\* than the number of qualifying documents that score higher, or score the
\* same and were inserted earlier.
Qualifying(docs) ==
    { i \in 1..Len(docs) : ScoreLeq(lastCall.minScore, ScoreOf(docs, i)) }

Rank(docs, i) ==
    1 + Cardinality({ j \in Qualifying(docs) :
                        \/ ScoreLt(ScoreOf(docs, i), ScoreOf(docs, j))
                        \/ (ScoreEq(ScoreOf(docs, i), ScoreOf(docs, j)) /\ j < i) })

Min(a, b) == IF a < b THEN a ELSE b

\* C2: searchByEmbedding returns exactly the min(limit, q) best of the q
\* qualifying documents: the document of rank n is the n-th result, where
\* equal scores rank in insertion order.
C2_SearchTopK ==
    IsSearch =>
        LET r == lastCall.result
            docs == SearchedDocs
        IN  /\ Len(r) = Min(lastCall.limit, Cardinality(Qualifying(docs)))
            /\ \A i \in Qualifying(docs) :
                   Rank(docs, i) <= lastCall.limit =>
                       /\ r[Rank(docs, i)].id = docs[i].id
                       /\ r[Rank(docs, i)].content = docs[i].content

\* Two documents tie, the earlier one is returned and the limit cuts the later.
C2_Witness ==
    /\ IsSearch
    /\ \E i, j \in Qualifying(SearchedDocs) :
           /\ i < j
           /\ ScoreEq(ScoreOf(SearchedDocs, i), ScoreOf(SearchedDocs, j))
           /\ \E n \in 1..Len(lastCall.result) : lastCall.result[n].id = SearchedDocs[i].id
           /\ \A n \in 1..Len(lastCall.result) : lastCall.result[n].id # SearchedDocs[j].id

UniqueIds(docs) == \A i, j \in 1..Len(docs) : docs[i].id = docs[j].id => i = j

\* What addDocument(domain, doc) makes of the collection old.
UpsertStep(old, new, doc) ==
    IF \E i \in 1..Len(old) : old[i].id = doc.id
    THEN /\ Len(new) = Len(old)
         /\ \A i \in 1..Len(old) : new[i] = IF old[i].id = doc.id THEN doc ELSE old[i]
    ELSE /\ Len(new) = Len(old) + 1
         /\ new[Len(new)] = doc
         /\ \A i \in 1..Len(old) : new[i] = old[i]

\* C3: addDocument replaces a stored document of the same id at its position
\* and leaves length and the other documents alone, or appends a document of
\* a new id at the end; no two stored documents of a namespace share an id.
C3_Upsert ==
    /\ [](\A domain \in Domains : UniqueIds(loadVectors(domain)))
    /\ [][\A domain \in Domains :
               (lastCall'.op = "addDocument" /\ lastCall'.domain = domain) =>
                   UpsertStep(loadVectors(domain), loadVectors(domain)', lastCall'.doc)]_vars

\* A document was replaced at the first position of a collection of two.
C3_Witness ==
    /\ lastCall.op = "addDocument"
    /\ Len(loadVectors(lastCall.domain)) = 2
    /\ loadVectors(lastCall.domain)[1] = lastCall.doc
    /\ loadVectors(lastCall.domain)[2].id[2] < lastCall.doc.id[2]

----------------------------------------------------------------------------
(* addDocument in several server processes.  Every MCP client starts a     *)
(* server process of its own, and all of them use the same BASE_DIR.  In   *)
(* one process addDocument is a single segment (AddDocument above); across *)
(* processes readFileSync and writeFileSync are separate system calls.     *)

\* vector-store.ts:59  const docs = loadVectors(domain), in process p
ProcLoad(p, domain, doc) ==
    /\ proc[p].pc = "idle"
    /\ ncalls < MaxCalls
    /\ ncalls' = ncalls + 1
    /\ dirs' = domainDir(dirs, domain)
    /\ proc' = [proc EXCEPT ![p] =
                   [pc |-> "loaded", domain |-> domain, doc |-> doc,
                    docs |-> loadVectors(domain), missed |-> {}]]
    /\ UNCHANGED <<vectorsFile, configFile, lastCall, serveVars, setups>>

SavedDocsReread(p) == Upsert(loadVectors(proc[p].domain), proc[p].doc)

\* vector-store.ts:61-64  what process p hands to saveVectors: the collection it
\* read, with its document put in
SavedDocs(p) == Upsert(proc[p].docs, proc[p].doc)

\* vector-store.ts:61-64 and 50-52  the rest of addDocument in process p.
\* missed collects, for every process between its two fs calls, the documents
\* written to the file it read.
ProcSave(p) ==
    /\ proc[p].pc = "loaded"
    /\ dirs' = domainDir(dirs, proc[p].domain)
    /\ vectorsFile' = [vectorsFile EXCEPT ![DirName(proc[p].domain)] = SavedDocs(p)]
    /\ proc' = [q \in Procs |->
                   IF q = p THEN Idle
                   ELSE IF /\ proc[q].pc = "loaded"
                           /\ DirName(proc[q].domain) = DirName(proc[p].domain)
                        THEN [proc[q] EXCEPT !.missed = @ \cup { proc[p].doc }]
                        ELSE proc[q]]
    /\ lastCall' = [op |-> "addDocument", domain |-> proc[p].domain, doc |-> proc[p].doc,
                    docs |-> proc[p].docs, missed |-> proc[p].missed]
    /\ UNCHANGED <<configFile, ncalls, serveVars, setups>>

InitProcs ==
    /\ SeededStore
    /\ lastCall = NoCall
    /\ ProcsIdle
    /\ ServeIdle
    /\ IngestIdle

NextProcs ==
    \/ \E p \in Procs, id \in DocIds(WriteDomain), ps \in Passages :
           ProcLoad(p, WriteDomain, MkDoc(id, ps))
    \/ \E p \in Procs : ProcSave(p)

SpecProcs == InitProcs /\ [][NextProcs]_vars

Ids(docs) == { docs[i].id : i \in 1..Len(docs) }

IsProcSave == lastCall.op = "addDocument" /\ "missed" \in DOMAIN lastCall

\* What another process wrote under a new id while the last writer was between
\* its read and its write.
DroppedByLastCall ==
    { m \in lastCall.missed : m.id # lastCall.doc.id /\ m.id \notin Ids(lastCall.docs) }

\* C5: addDocument in two processes races on the file: the last writer stores
\* the collection it read plus its own document, so a document another
\* process added under a different id in between is no longer stored.
C5_LastWriterWins ==
    IsProcSave =>
        /\ lastCall.doc.id \in Ids(loadVectors(lastCall.domain))
        /\ \A m \in DroppedByLastCall : m.id \notin Ids(loadVectors(lastCall.domain))

\* Two addDocument calls with different ids have both returned and one of the
\* two documents is stored.
C5_Witness ==
    /\ IsProcSave
    /\ ncalls = 2
    /\ \A p \in Procs : proc[p].pc = "idle"
    /\ DroppedByLastCall # {}
    /\ Len(loadVectors(lastCall.domain)) = 1

----------------------------------------------------------------------------
(* JavaScript values of a request body, and text *)

\* A string is the sequence of its character codes.
Undefined == [t |-> "undefined"]
JsNull == [t |-> "null"]
Num(n) == [t |-> "number", v |-> n]
Str(cs) == [t |-> "string", v |-> cs]
Arr(xs) == [t |-> "array", v |-> xs]
Turn(role, text) == [t |-> "object", role |-> role, text |-> text]
Body(message, history) == [t |-> "object", message |-> message, history |-> history]

IsStringValue(x) == x.t = "string"

\* !x is the negation of this
Truthy(x) ==
    CASE x.t = "undefined" -> FALSE
      [] x.t = "null" -> FALSE
      [] x.t = "number" -> x.v # 0
      [] x.t = "string" -> x.v # <<>>
      [] OTHER -> TRUE

\* h?.role, h?.text
Prop(h, name) ==
    IF h.t = "object" /\ name \in DOMAIN h THEN h[name] ELSE Undefined

\* chat-server.ts:22
MAX_INPUT == 1000

\* chat-server.ts:25  [\x00-\x08\x0B\x0C\x0E-\x1F]
IsControl(c) == (0 <= c /\ c <= 8) \/ c = 11 \/ c = 12 \/ (14 <= c /\ c <= 31)

AnyCharacter(c) == TRUE

NotControl(c) == ~IsControl(c)

\* chat-server.ts:24-26  on a string
sanitize(text) ==
    SelectSeq(SubSeq(text, 1, IF Len(text) < MAX_INPUT THEN Len(text) ELSE MAX_INPUT),
              NotControl)

\* chat-server.ts:98  .slice(-10)
HistoryLimit == 10

FirstTurns(xs) ==
    IF Len(xs) <= HistoryLimit THEN xs ELSE SubSeq(xs, 1, HistoryLimit)

LastTurns(xs) ==
    IF Len(xs) <= HistoryLimit THEN xs ELSE SubSeq(xs, Len(xs) - HistoryLimit + 1, Len(xs))

KeepTurn(h) == Truthy(Prop(h, "role")) /\ Truthy(Prop(h, "text"))

\* chat-server.ts:97-100  safeHistory.  sanitize is called on every kept text;
\* text that is kept and is no string has no slice (or no replace) and throws.
SafeHistory(history) ==
    LET kept == SelectSeq(IF history.t = "array" THEN LastTurns(history.v) ELSE <<>>, KeepTurn)
    IN  IF \E i \in 1..Len(kept) : kept[i].text.t # "string"
        THEN [threw |-> TRUE, turns |-> <<>>]
        ELSE [threw |-> FALSE,
              turns |-> [i \in 1..Len(kept) |->
                            [role |-> kept[i].role, text |-> sanitize(kept[i].text.v)]]]

\* chat-server.ts:65-67  JSON.parse of the body and the destructuring of the
\* result: a body that is no JSON, or is the JSON null, throws.
ParseThrows(body) == ~body.json \/ body.value.t = "null"

\* chat-server.ts:82 and mcp-server.ts:186  limit 3, default minScore
SearchLimit == 3

\* chat-server.ts:81-89 and mcp-server.ts:185-195  the retrieval step, given what
\* generateEmbedding did: threw, or returned a vector, or returned undefined
\* (then cosineSimilarity throws on a.length, unless no document is stored).
Retrieve(docs, embedded) ==
    IF embedded.kind = "throw" THEN [failed |-> TRUE, results |-> <<>>]
    ELSE IF Len(docs) = 0 THEN [failed |-> FALSE, results |-> <<>>]
    ELSE IF embedded.kind = "undefined" THEN [failed |-> TRUE, results |-> <<>>]
    ELSE [failed |-> FALSE,
          results |-> searchByEmbedding(docs, embedded.v, SearchLimit, DefaultMinScore)]

Contents(results) == [i \in 1..Len(results) |-> results[i].content]

\* ragContext as a condition: the joined contents are not the empty string
RagContextTruthy(results) ==
    \/ Len(results) > 1
    \/ (Len(results) = 1 /\ results[1].content # "")

\* chat-server.ts:92-94 and mcp-server.ts:197-199  the system prompt: the
\* config's prompt, with the retrieved contents in the template of the path
SystemPrompt(config, results, path) ==
    IF RagContextTruthy(results)
    THEN [base |-> config.systemPrompt, template |-> path, context |-> Contents(results)]
    ELSE [base |-> config.systemPrompt, template |-> "plain", context |-> <<>>]

\* chat-server.ts:85  r.id;  mcp-server.ts:189-191  id and score
Sources(results, path) ==
    [i \in 1..Len(results) |->
        IF path = "serve" THEN [id |-> results[i].id]
        ELSE [id |-> results[i].id, score |-> results[i].score]]

----------------------------------------------------------------------------
(* The chat listener: startChatServer *)

Listener(domain, config) == [state |-> "listening", domain |-> domain, config |-> config]

\* What server.listen(port) meets: another process holds the port, the
\* operating system refuses it, or one of this process's open servers has it.
Bind(port, srvs) ==
    IF portEnv[port] = "denied" THEN "EACCES"
    ELSE IF portEnv[port] = "inuse" \/ srvs[port].state = "listening" THEN "EADDRINUSE"
    ELSE "ok"

SamePort(port) == port

\* chat-server.ts:127  port + 1
NextPort(port) == port + 1

NeverNotConfigured(config) == FALSE

\* mcp-server.ts:168, mcp-server.ts:236, chat-server.ts:37  if (!config)
NotConfigured(config) == ~config.exists

\* chat-server.ts:43-46  activeServer.close()
CloseActive(srvs, active) ==
    IF active # 0 THEN [srvs EXCEPT ![active] = NoServer] ELSE srvs

\* A startChatServer that stops the active listener before it looks at the
\* config.
StartClosesFirst(c, domain, port, cs, q) ==
    LET config == loadDomainConfig(domain)
        closed == CloseActive(servers, activeServer)
        bound == Bind(port, closed)
    IN  /\ dirs' = domainDir(dirs, domain)
        /\ activeServer' = 0
        /\ IF NotConfigured(config)
           THEN /\ servers' = closed
                /\ calls' = [cs EXCEPT !.settled = Settled(c, "rejected", 0, "not configured")]
                /\ tickQueue' = q
           ELSE IF port > MaxPort
                THEN /\ servers' = closed
                     /\ calls' = [cs EXCEPT !.settled = Settled(c, "rejected", 0, "bad port")]
                     /\ tickQueue' = q
                ELSE /\ servers' = IF bound = "ok"
                                   THEN [closed EXCEPT ![port] = Listener(domain, config)]
                                   ELSE closed
                     /\ tickQueue' =
                            Append(q, [type |-> IF bound = "ok" THEN "listening" ELSE "error",
                                       code |-> bound, domain |-> domain,
                                       port |-> port, call |-> c])
                     /\ calls' = cs

\* chat-server.ts:35-131  startChatServer(domain, port) up to its return, for
\* the promise c; cs is calls and q the tick queue as the caller leaves them.  listen() binds at once and emits 'listening' or
\* 'error' on a later tick; a port above MaxPort makes listen() throw, which
\* rejects the promise.
StartChatServer(c, domain, port, cs, q) ==
    LET config == loadDomainConfig(domain)
        closed == CloseActive(servers, activeServer)
        bound == Bind(port, closed)
    IN  /\ dirs' = domainDir(dirs, domain)
        /\ IF NotConfigured(config)
           THEN /\ calls' = [cs EXCEPT !.settled = Settled(c, "rejected", 0, "not configured")]
                /\ tickQueue' = q
                /\ UNCHANGED <<servers, activeServer>>
           ELSE /\ activeServer' = 0
                /\ IF port > MaxPort
                   THEN /\ servers' = closed
                        /\ calls' = [cs EXCEPT !.settled = Settled(c, "rejected", 0, "bad port")]
                        /\ tickQueue' = q
                   ELSE /\ servers' = IF bound = "ok"
                                      THEN [closed EXCEPT ![port] = Listener(domain, config)]
                                      ELSE closed
                        /\ tickQueue' =
                               Append(q, [type |-> IF bound = "ok" THEN "listening" ELSE "error",
                                          code |-> bound, domain |-> domain,
                                          port |-> port, call |-> c])
                        /\ calls' = cs

\* mcp-server.ts:233-263  ragchat_serve up to its await
RagchatServe(domain, port) ==
    /\ calls.started < MaxStarts
    /\ IF NotConfigured(loadDomainConfig(domain))
       THEN /\ calls' = [started |-> calls.started + 1,
                         settled |-> Settled(calls.started + 1, "notFound", 0, ""),
                         requested |-> Append(calls.requested, port)]
            /\ dirs' = domainDir(dirs, domain)
            /\ UNCHANGED <<servers, activeServer, tickQueue>>
       ELSE StartChatServer(calls.started + 1, domain, port,
                            [calls EXCEPT !.started = @ + 1, !.requested = Append(@, port)],
                            tickQueue)
    /\ UNCHANGED <<vectorsFile, configFile, lastCall, procVars, setups, portEnv, req>>

\* chat-server.ts:119-122  the 'listening' callback
ListeningEvent ==
    /\ tickQueue # <<>>
    /\ Head(tickQueue).type = "listening"
    /\ activeServer' = Head(tickQueue).port
    /\ calls' = [calls EXCEPT !.settled = Settled(Head(tickQueue).call, "resolved",
                                                  Head(tickQueue).port, "")]
    /\ tickQueue' = Tail(tickQueue)
    /\ UNCHANGED <<storeVars, lastCall, procVars, setups, servers, portEnv, req>>

\* chat-server.ts:124-131  the 'error' handler
ErrorEvent ==
    /\ tickQueue # <<>>
    /\ Head(tickQueue).type = "error"
    /\ IF Head(tickQueue).code = "EADDRINUSE"
       THEN StartChatServer(Head(tickQueue).call, Head(tickQueue).domain,
                            NextPort(Head(tickQueue).port), calls, Tail(tickQueue))
       ELSE /\ calls' = [calls EXCEPT !.settled = Settled(Head(tickQueue).call, "rejected",
                                                         0, Head(tickQueue).code)]
            /\ tickQueue' = Tail(tickQueue)
            /\ UNCHANGED <<dirs, servers, activeServer>>
    /\ UNCHANGED <<vectorsFile, configFile, lastCall, procVars, setups, portEnv, req>>

----------------------------------------------------------------------------
(* A chat exchange: POST /chat on a listener, or ragchat_test *)

NotCalled == [called |-> FALSE]

\* A chat exchange as it starts.  configured records whether the namespace
\* had a config at that moment, and stored that config; completion records
\* what callLLM did.
NewReq(path, server, domain, config, input) ==
    [pc |-> "done", path |-> path, server |-> server, domain |-> domain,
     config |-> config, input |-> input, message |-> <<>>, history |-> Undefined,
     embed |-> NotCalled, llm |-> NotCalled, retrievalFailed |-> FALSE,
     sources |-> <<>>, completion |-> "none", status |-> 0, result |-> "pending",
     configured |-> configFile[DirName(domain)].exists,
     stored |-> configFile[DirName(domain)]]

Answered(r, status, result) == [r EXCEPT !.pc = "done", !.status = status, !.result = result]

EmptyMessageAccepted(message) == message.t # "string"

\* chat-server.ts:108-110  what the catch of the handler answers
CaughtStatus == 500

\* chat-server.ts:68  !message || typeof message !== "string"
MessageRejected(message) == ~Truthy(message) \/ message.t # "string"

\* A handler that reads the config of its namespace on every request.
ReloadedConfig(s) == loadDomainConfig(servers[s].domain)

\* chat-server.ts:36 and 92-94  config in the handler is the constant of the
\* startChatServer call that made the listener
HandlerConfig(s) == servers[s].config

\* chat-server.ts:48-117  the request handler up to the call of
\* generateEmbedding.  Reading the body awaits, but touches nothing shared.
HttpRequest(s, in) ==
    /\ req.pc \in { "none", "done" }
    /\ servers[s].state = "listening"
    /\ LET r == NewReq("serve", s, servers[s].domain, HandlerConfig(s), in)
           message == Prop(in.body.value, "message")
       IN  req' =
               IF in.method = "OPTIONS" THEN Answered(r, 200, "options")
               ELSE IF in.method = "GET" /\ in.url = "/" THEN Answered(r, 200, "health")
               ELSE IF in.method = "POST" /\ in.url = "/chat"
                    THEN IF ParseThrows(in.body) THEN Answered(r, CaughtStatus, "error")
                         ELSE IF MessageRejected(message)
                              THEN Answered(r, 400, "messageRequired")
                              ELSE [r EXCEPT !.pc = "embedding",
                                             !.message = sanitize(message.v),
                                             !.history = Prop(in.body.value, "history"),
                                             !.embed = [called |-> TRUE,
                                                        text |-> sanitize(message.v)]]
                    ELSE Answered(r, 404, "notFoundPath")
    /\ UNCHANGED <<storeVars, lastCall, procVars, setups, servers, activeServer, tickQueue,
                   calls, portEnv>>

\* mcp-server.ts:165-185  ragchat_test up to the call of generateEmbedding
RagchatTest(domain, message) ==
    /\ req.pc \in { "none", "done" }
    /\ dirs' = domainDir(dirs, domain)
    /\ LET config == loadDomainConfig(domain)
           r == NewReq("test", 0, domain, config, [message |-> message])
       IN  req' =
               IF NotConfigured(config) THEN Answered(r, 0, "notFound")
               ELSE [r EXCEPT !.pc = "embedding", !.message = message,
                              !.embed = [called |-> TRUE, text |-> message]]
    /\ UNCHANGED <<vectorsFile, configFile, lastCall, procVars, setups, servers, activeServer,
                   tickQueue, calls, portEnv>>

RetrievalFailureAnswers(r, rt, prompt, hist) ==
    IF rt.failed \/ hist.threw
    THEN [Answered(r, CaughtStatus, "error") EXCEPT !.retrievalFailed = rt.failed]
    ELSE [r EXCEPT !.pc = "completing", !.retrievalFailed = rt.failed,
                   !.sources = Sources(rt.results, r.path),
                   !.llm = [called |-> TRUE, systemPrompt |-> prompt,
                            history |-> hist.turns, message |-> r.message]]

\* chat-server.ts:87-103 and mcp-server.ts:193-201  after the retrieval step:
\* the inner catch swallows its failure; the prompt and the history are
\* built, and callLLM is called unless sanitizing the history threw.
AfterRetrieval(r, rt, prompt, hist) ==
    IF hist.threw
    THEN [Answered(r, CaughtStatus, "error") EXCEPT !.retrievalFailed = rt.failed]
    ELSE [r EXCEPT !.pc = "completing", !.retrievalFailed = rt.failed,
                   !.sources = Sources(rt.results, r.path),
                   !.llm = [called |-> TRUE, systemPrompt |-> prompt,
                            history |-> hist.turns, message |-> r.message]]

\* chat-server.ts:81-103 and mcp-server.ts:185-201  generateEmbedding has
\* settled: search, prompt, history, and the call of callLLM
EmbedReturn(embedded) ==
    /\ req.pc = "embedding"
    /\ dirs' = IF embedded.kind = "throw" THEN dirs ELSE domainDir(dirs, req.domain)
    /\ LET rt == Retrieve(loadVectors(req.domain), embedded)
           hist == IF req.path = "serve" THEN SafeHistory(req.history)
                   ELSE [threw |-> FALSE, turns |-> <<>>]
       IN  req' = AfterRetrieval(req, rt, SystemPrompt(req.config, rt.results, req.path), hist)
    /\ UNCHANGED <<vectorsFile, configFile, lastCall, procVars, setups, servers, activeServer,
                   tickQueue, calls, portEnv>>

CompletionFailureAnswers200(r) == Answered(r, 200, "reply")

\* chat-server.ts:108-110 and mcp-server.ts:212-216  callLLM threw
CompletionFailed(r) ==
    IF r.path = "serve" THEN Answered(r, CaughtStatus, "error") ELSE Answered(r, 0, "error")

\* chat-server.ts:103-111 and mcp-server.ts:201-217  callLLM has settled
CompleteReturn(outcome) ==
    /\ req.pc = "completing"
    /\ req' = [(IF outcome = "throw" THEN CompletionFailed(req)
                ELSE IF req.path = "serve" THEN Answered(req, 200, "reply")
                ELSE Answered(req, 0, "reply"))
               EXCEPT !.completion = outcome]
    /\ UNCHANGED <<storeVars, lastCall, procVars, setups, servers, activeServer, tickQueue,
                   calls, portEnv>>

----------------------------------------------------------------------------
(* The serving specification *)

\* The namespace without documents: config only.
BareDomain == <<"a">>
BareConfig == [exists |-> TRUE, domain |-> BareDomain, systemPrompt |-> "prompt2"]

ServeDomains == { BareDomain, SeededDomain }

\* SeededDomain ingested; BareDomain set up with every embedding failed.
ServeStore ==
    /\ dirs = { DirName(SeededDomain), DirName(BareDomain) }
    /\ vectorsFile = [d \in DirNames |-> IF d = DirName(SeededDomain) THEN SeededDocs ELSE NoFile]
    /\ configFile = [d \in DirNames |->
                        IF d = DirName(SeededDomain) THEN SeededConfig(SeededDomain)
                        ELSE IF d = DirName(BareDomain) THEN BareConfig ELSE NoConfig]

PortEnvs == { [p \in Ports |-> IF p = 1 THEN e ELSE "free"] : e \in { "free", "inuse", "denied" } }

Hi == <<104, 105>>
HiBell == <<104, 7, 105>>

Histories ==
    { Undefined,
      Arr(<< Turn(Str(<<117>>), Str(Hi)) >>),
      Arr(<< Turn(Str(<<117>>), Num(5)) >>) }

NotJson == [json |-> FALSE, value |-> Undefined]
Json(v) == [json |-> TRUE, value |-> v]

Bodies ==
    { NotJson, Json(JsNull), Json(Body(Undefined, Undefined)), Json(Body(Num(42), Undefined)),
      Json(Body(Str(<<>>), Undefined)), Json(Body(Str(HiBell), Undefined)) }
    \cup { Json(Body(Str(Hi), h)) : h \in Histories }

HttpInputs ==
    { [method |-> "OPTIONS", url |-> "/chat", body |-> NotJson],
      [method |-> "GET", url |-> "/", body |-> NotJson],
      [method |-> "GET", url |-> "/chat", body |-> NotJson] }
    \cup { [method |-> "POST", url |-> "/chat", body |-> b] : b \in Bodies }

TestMessages == { Hi, HiBell }

EmbedQueries == { <<1, 0>> }

EmbedOutcomes ==
    { [kind |-> "throw"], [kind |-> "undefined"] }
    \cup { [kind |-> "vector", v |-> q] : q \in EmbedQueries }

\* mcp-server.ts:247  port || 3456.  Ports are numbered from the default
\* port upwards, so port 3456 + k of the program is port 1 + k here.
DefaultPort == CHOOSE p \in Ports : \A q \in Ports : p <= q

InitServe ==
    /\ ServeStore
    /\ lastCall = NoCall
    /\ ProcsIdle
    /\ servers = [p \in Ports |-> NoServer]
    /\ activeServer = 0
    /\ tickQueue = <<>>
    /\ calls = [started |-> 0, settled |-> NoneSettled, requested |-> <<>>]
    /\ portEnv \in PortEnvs
    /\ req = NoReq
    /\ IngestIdle

\* The listener alone: starts on any port, no chat exchange.
NextListen ==
    \/ \E domain \in ServeDomains, port \in Ports : RagchatServe(domain, port)
    \/ ListeningEvent
    \/ ErrorEvent
    \/ DeleteDomain(SeededDomain)

SpecListen == InitServe /\ [][NextListen]_vars

\* Node delivers every queued event: the callbacks run on the next tick.
SpecListenFair == SpecListen /\ WF_vars(ListeningEvent) /\ WF_vars(ErrorEvent)

\* Chat exchanges against listeners started on the default port.
NextServe ==
    \/ \E domain \in ServeDomains : RagchatServe(domain, DefaultPort)
    \/ ListeningEvent
    \/ ErrorEvent
    \/ \E s \in Ports, in \in HttpInputs : HttpRequest(s, in)
    \/ \E domain \in ServeDomains, message \in TestMessages : RagchatTest(domain, message)
    \/ \E embedded \in EmbedOutcomes : EmbedReturn(embedded)
    \/ \E outcome \in { "reply", "throw" } : CompleteReturn(outcome)
    \/ DeleteDomain(SeededDomain)

SpecServe == InitServe /\ [][NextServe]_vars

----------------------------------------------------------------------------
(* Ingestion: ragchat_setup *)

\* mcp-server.ts:96  s.text.length >= 50
MinSectionLength == 50

\* A markdown content is the sequence of the pieces that split(/^## /m) cuts
\* it into; a piece is blank (only white space) or has a first line, the
\* title, and the text after it, of which the model keeps a name and the
\* length after trimming.
BlankPiece == [blank |-> TRUE]
Piece(title, text, length) == [blank |-> FALSE, title |-> title, text |-> text, length |-> length]

NotBlank(piece) == ~piece.blank

\* mcp-server.ts:46-55  splitMarkdown
splitMarkdown(content) ==
    LET pieces == SelectSeq(content, NotBlank)
    IN  [i \in 1..Len(pieces) |->
            [title |-> pieces[i].title, text |-> pieces[i].text, length |-> pieces[i].length]]

LongEnough(section) == section.length >= MinSectionLength

AllSections(sections) == sections

\* mcp-server.ts:96  validSections
ValidSections(sections) == SelectSeq(sections, LongEnough)

\* mcp-server.ts:110-114  the config ragchat_setup saves (createdAt left out)
MkConfig(domain, systemPrompt) ==
    [exists |-> TRUE, domain |-> domain, systemPrompt |-> systemPrompt]

\* vector-store.ts:107-112  saveDomainConfig, on the config files
SavedConfig(cf, domain, systemPrompt) ==
    [cf EXCEPT ![DirName(domain)] = MkConfig(domain, systemPrompt)]

\* What the embedding collaborator returns for a text, when it returns.
EmbeddingOf(text) ==
    CASE text = "c1" -> <<1, 0>>
      [] text = "c2" -> <<0, 1>>
      [] OTHER -> <<2, 1>>

\* mcp-server.ts:124-130  the document of the i-th valid section
SectionDoc(domain, i, section) ==
    MkDoc(<<domain, i>>,
          [title |-> section.title, content |-> section.text, embedding |-> EmbeddingOf(section.text)])

\* What a reader sees of the stored documents, embeddings and dates aside.
View(docs) ==
    [i \in 1..Len(docs) |-> [id |-> docs[i].id, title |-> docs[i].title, content |-> docs[i].content]]

SeededCountsAttempts(seeded, ok) == seeded + 1

\* mcp-server.ts:131-132  seeded++ follows addDocument, inside the try
SeededAfter(seeded, ok) == IF ok THEN seeded + 1 ELSE seeded

\* A ragchat_setup call as it starts.  docsAtStart, docsAtReturn and
\* configAtReturn record what the namespace held at those moments; wrote
\* counts the addDocument calls that returned; interfered records a write of
\* another call to the namespace's directory while this one was running.
NewSetup(domain, content, systemPrompt) ==
    [pc |-> "done", domain |-> domain, content |-> content, systemPrompt |-> systemPrompt,
     sections |-> ValidSections(splitMarkdown(content)),
     i |-> 0, seeded |-> 0, errors |-> <<>>, outcome |-> "noViableInput",
     embedCalls |-> 0, wrote |-> 0, interfered |-> FALSE,
     docsAtStart |-> View(vectorsFile[DirName(domain)]),
     docsAtReturn |-> View(vectorsFile[DirName(domain)]),
     configAtReturn |-> configFile[DirName(domain)]]

\* mcp-server.ts:93-123  ragchat_setup up to its first await: the sections,
\* the early return, the config, and the call of generateEmbedding for the
\* first valid section.  Calls are numbered in the order they are made.
RagchatSetup(k, domain, content, systemPrompt) ==
    /\ setups[k].pc = "idle"
    /\ \A j \in 1..(k - 1) : setups[j].pc # "idle"
    /\ LET st == NewSetup(domain, content, systemPrompt)
       IN  IF st.sections = <<>>
           THEN /\ setups' = [setups EXCEPT ![k] = st]
                /\ UNCHANGED <<dirs, configFile>>
           ELSE /\ dirs' = domainDir(dirs, domain)
                /\ configFile' = SavedConfig(configFile, domain, systemPrompt)
                /\ setups' = [Interfere(setups, k, domain) EXCEPT
                                 ![k] = [st EXCEPT !.pc = "embedding", !.i = 1,
                                                   !.embedCalls = 1, !.outcome = "pending"]]
    /\ UNCHANGED <<vectorsFile, lastCall, procVars, serveVars>>

\* mcp-server.ts:123-144  generateEmbedding has settled for section i: the
\* document is stored (or the failure noted), and either the next section's
\* embedding is asked for or the call returns its summary.  outcome is
\* "vector", "throw" (the embedding failed) or "storeThrow" (addDocument
\* threw on writing the file).
SetupEmbedReturn(k, outcome) ==
    /\ setups[k].pc = "embedding"
    /\ LET st == setups[k]
           ok == outcome = "vector"
           last == st.i = Len(st.sections)
           stored == IF ok
                     THEN Upsert(loadVectors(st.domain),
                                 SectionDoc(st.domain, st.i, st.sections[st.i]))
                     ELSE vectorsFile[DirName(st.domain)]
       IN  /\ dirs' = IF outcome = "throw" THEN dirs ELSE domainDir(dirs, st.domain)
           /\ vectorsFile' = [vectorsFile EXCEPT ![DirName(st.domain)] = stored]
           /\ setups' =
                  [(IF ok THEN Interfere(setups, k, st.domain) ELSE setups) EXCEPT
                     ![k] = [st EXCEPT
                               !.seeded = SeededAfter(@, ok),
                               !.wrote = IF ok THEN @ + 1 ELSE @,
                               !.errors = IF ok THEN @ ELSE Append(@, st.sections[st.i].title),
                               !.i = IF last THEN @ ELSE @ + 1,
                               !.embedCalls = IF last THEN @ ELSE @ + 1,
                               !.pc = IF last THEN "done" ELSE "embedding",
                               !.outcome = IF last THEN "configured" ELSE "pending",
                               !.docsAtReturn = View(stored),
                               !.configAtReturn = configFile[DirName(st.domain)]]]
    /\ UNCHANGED <<configFile, lastCall, procVars, serveVars>>

IngestDomain == <<"a">>

\* Two sections, both long enough; a short section before a long one; no
\* section long enough.
ContentTwo == << Piece("t1", "c1", 60), Piece("t2", "c2", 50) >>
ContentMixed == << BlankPiece, Piece("t0", "c0", 49), Piece("t3", "c3", 60) >>
ContentNone == << BlankPiece, Piece("t0", "c0", 49) >>

SetupInputs ==
    { [content |-> ContentTwo, systemPrompt |-> "prompt1"],
      [content |-> ContentMixed, systemPrompt |-> "prompt2"],
      [content |-> ContentNone, systemPrompt |-> "prompt2"] }

EmbedResults == { "vector", "throw", "storeThrow" }

\* An empty store directory.
InitIngest ==
    /\ dirs = {}
    /\ vectorsFile = [d \in DirNames |-> NoFile]
    /\ configFile = [d \in DirNames |-> NoConfig]
    /\ lastCall = NoCall
    /\ ProcsIdle
    /\ ServeIdle
    /\ IngestIdle

NextIngest ==
    \/ \E k \in SetupCalls, in \in SetupInputs :
           RagchatSetup(k, IngestDomain, in.content, in.systemPrompt)
    \/ \E k \in SetupCalls, outcome \in EmbedResults : SetupEmbedReturn(k, outcome)
    \/ DeleteDomain(IngestDomain)

SpecIngest == InitIngest /\ [][NextIngest]_vars

----------------------------------------------------------------------------
(* Claims about ingestion *)

Started(k) == setups[k].pc # "idle"

Returned(k) == setups[k].pc = "done"

\* The pieces of a content that make a section of at least 50 characters.
ViableIn(content) == { i \in 1..Len(content) : ~content[i].blank /\ content[i].length >= 50 }

DirOf(k) == DirName(setups[k].domain)

\* C15: a ragchat_setup call whose content has no section of at least 50
\* characters reports the no-viable-input outcome, calls the embedding
\* collaborator not once, and leaves directories, configs and documents as
\* they were.
C15_NoViableInput ==
    /\ [](\A k \in SetupCalls :
             Started(k) =>
                /\ (ViableIn(setups[k].content) = {}) <=> (setups[k].outcome = "noViableInput")
                /\ (ViableIn(setups[k].content) = {}) =>
                       /\ Returned(k)
                       /\ setups[k].embedCalls = 0
                       /\ setups[k].wrote = 0)
    /\ [][\A k \in SetupCalls :
             (~Started(k) /\ setups'[k].pc # "idle" /\ ViableIn(setups'[k].content) = {}) =>
                (dirs' = dirs /\ vectorsFile' = vectorsFile /\ configFile' = configFile)]_vars

\* A call without viable input returned while the namespace held the config
\* and a document of an earlier call.
C15_Witness ==
    \E k \in SetupCalls :
        /\ Returned(k)
        /\ setups[k].outcome = "noViableInput"
        /\ configFile[DirOf(k)] = MkConfig(setups[k].domain, "prompt1")
        /\ setups[k].systemPrompt = "prompt2"
        /\ Len(vectorsFile[DirOf(k)]) = 2

\* C16: with n >= 1 sections of at least 50 characters, a failure to embed
\* or to store one section does not end the batch: every section is
\* attempted, and on return seeded plus the number of reported failures is n,
\* seeded being the number of documents the call wrote.
C16_PartialSuccess ==
    \A k \in SetupCalls :
        Started(k) =>
            /\ Len(setups[k].sections) = Cardinality(ViableIn(setups[k].content))
            /\ setups[k].seeded = setups[k].wrote
            /\ (setups[k].pc = "embedding") =>
                  /\ setups[k].seeded + Len(setups[k].errors) = setups[k].i - 1
                  /\ setups[k].embedCalls = setups[k].i
            /\ (Returned(k) /\ ViableIn(setups[k].content) # {}) =>
                  /\ setups[k].outcome = "configured"
                  /\ setups[k].seeded + Len(setups[k].errors) =
                         Cardinality(ViableIn(setups[k].content))
                  /\ setups[k].embedCalls = Cardinality(ViableIn(setups[k].content))

\* The first of two sections failed; the second was still stored.
C16_Witness ==
    \E k \in SetupCalls :
        /\ Returned(k)
        /\ Len(setups[k].sections) = 2
        /\ setups[k].errors = << "t1" >>
        /\ setups[k].seeded = 1
        /\ setups[k].docsAtReturn # <<>>

\* The documents a fully successful ingestion of the call's content makes.
Expected(k) ==
    [i \in 1..Len(setups[k].sections) |->
        [id |-> <<setups[k].domain, i>>, title |-> setups[k].sections[i].title,
         content |-> setups[k].sections[i].text]]

FullySuccessful(k) ==
    /\ Returned(k)
    /\ setups[k].outcome = "configured"
    /\ setups[k].seeded = Len(setups[k].sections)
    /\ ~setups[k].interfered

\* Every one of the documents ds is in the list docs.
Holds(docs, ds) == \A i \in 1..Len(ds) : \E j \in 1..Len(docs) : docs[j] = ds[i]

\* C17: a fully successful ingestion that no other call crosses stores the
\* i-th valid section under the id <namespace>-<i>, and when the namespace
\* already holds the documents of that content (a full ingestion of it came
\* before) it leaves ids, order, titles, contents and count as they were.
C17_Idempotent ==
    \A k \in SetupCalls :
        FullySuccessful(k) =>
            /\ Holds(setups[k].docsAtReturn, Expected(k))
            /\ (setups[k].docsAtStart = <<>>) => (setups[k].docsAtReturn = Expected(k))
            /\ Holds(setups[k].docsAtStart, Expected(k)) =>
                  (setups[k].docsAtReturn = setups[k].docsAtStart)

\* A second full ingestion of the same content returned.
C17_Witness ==
    \E k \in SetupCalls :
        /\ FullySuccessful(k)
        /\ Len(setups[k].sections) = 2
        /\ setups[k].docsAtStart = Expected(k)
        /\ setups[k].docsAtReturn = Expected(k)

\* The config is written in the step that makes the first call to the
\* embedding collaborator, and stays while nothing else touches the namespace.
ConfigFirst ==
    \A k \in SetupCalls :
        (Started(k) /\ setups[k].sections # <<>> /\ ~setups[k].interfered) =>
            /\ setups[k].embedCalls >= 1
            /\ (setups[k].pc = "embedding") =>
                  (configFile[DirOf(k)] = MkConfig(setups[k].domain, setups[k].systemPrompt))
            /\ Returned(k) =>
                  (setups[k].configAtReturn = MkConfig(setups[k].domain, setups[k].systemPrompt))

\* C18: in every ragchat_setup call with a valid section the namespace has a
\* config carrying that call's system prompt when the call returns, whether
\* its embeddings failed or not.
C18_ConfigOnReturn ==
    \A k \in SetupCalls :
        (Returned(k) /\ setups[k].sections # <<>>) =>
            (setups[k].configAtReturn = MkConfig(setups[k].domain, setups[k].systemPrompt))

\* The step is one of a ragchat_setup call: the call starts, or one of its
\* embeddings settles.
IngestionStep ==
    \E k \in SetupCalls :
        \/ setups'[k].pc # setups[k].pc
        \/ (setups[k].pc = "embedding" /\ setups'[k].i # setups[k].i)

\* Section i of call k was embedded and stored.
Stored(k, i) == \A e \in 1..Len(setups[k].errors) : setups[k].errors[e] # setups[k].sections[i].title

\* C28: ingestion removes no document.  Every step of a ragchat_setup call
\* leaves the documents of every namespace in place, with their ids, and a
\* step in which an embedding or a store failed leaves them as they were; a
\* call that no other call crosses returns with every document it found
\* still stored at its position, ids <namespace>-i of the sections it
\* stored carrying the new title and content, every other document
\* unchanged.
C28_NeverRemoves ==
    /\ [][IngestionStep =>
             \A d \in DirNames :
                 /\ Len(vectorsFile'[d]) >= Len(vectorsFile[d])
                 /\ \A j \in 1..Len(vectorsFile[d]) : vectorsFile'[d][j].id = vectorsFile[d][j].id
                 /\ (\E k \in SetupCalls :
                        /\ setups[k].pc = "embedding"
                        /\ Len(setups'[k].errors) > Len(setups[k].errors)) =>
                       (vectorsFile' = vectorsFile)]_vars
    /\ [](\A k \in SetupCalls :
             (Returned(k) /\ setups[k].outcome = "configured" /\ ~setups[k].interfered) =>
                 /\ Len(setups[k].docsAtReturn) >= Len(setups[k].docsAtStart)
                 /\ \A j \in 1..Len(setups[k].docsAtStart) :
                       IF \E i \in 1..Len(setups[k].sections) :
                              setups[k].docsAtStart[j].id = <<setups[k].domain, i>> /\ Stored(k, i)
                       THEN \E i \in 1..Len(setups[k].sections) :
                                setups[k].docsAtReturn[j] = Expected(k)[i]
                       ELSE setups[k].docsAtReturn[j] = setups[k].docsAtStart[j])

\* A namespace holding the two documents of an earlier ingestion was
\* ingested again with content of one valid section: the first document
\* carries the new content, the second is the old one.
C28_Witness ==
    \E k \in SetupCalls :
        /\ FullySuccessful(k)
        /\ Len(setups[k].sections) = 1
        /\ Len(setups[k].docsAtStart) = 2
        /\ Len(setups[k].docsAtReturn) = 2
        /\ setups[k].docsAtReturn[1] = Expected(k)[1]
        /\ setups[k].docsAtReturn[1] # setups[k].docsAtStart[1]
        /\ setups[k].docsAtReturn[2] = setups[k].docsAtStart[2]

\* C19: a namespace that has a stored document has a config, in every state
\* of every interleaving of ingestion and delete calls.
C19_DocsImplyConfig ==
    \A d \in DirNames : (vectorsFile[d] # NoFile) => configFile[d].exists

----------------------------------------------------------------------------
(* safeHistory on its own: long histories *)

\* Turn i of a supplied history carries the text chr(96 + i); a malformed
\* turn lacks its text, lacks its role, or has a number as text, by position.
GoodTurn(i) == Turn(Str(<<117>>), Str(<<96 + i>>))
BadTurn(i) ==
    CASE i % 3 = 1 -> Turn(Str(<<117>>), Undefined)
      [] i % 3 = 2 -> Turn(Undefined, Str(<<96 + i>>))
      [] OTHER -> Turn(Str(<<117>>), Num(5))

LongHistories ==
    { Arr([i \in DOMAIN g |-> IF g[i] THEN GoodTurn(i) ELSE BadTurn(i)]) :
        g \in UNION { [1..k -> BOOLEAN] : k \in 0..MaxTurns } }

\* "user", "assistant" and "system" as character codes.
RoleUser == <<117, 115, 101, 114>>
RoleAssistant == <<97, 115, 115, 105, 115, 116, 97, 110, 116>>
RoleSystem == <<115, 121, 115, 116, 101, 109>>

\* Histories of two well-formed turns, with every pair of these roles.
RoleHistories ==
    { Arr(<< Turn(Str(r1), Str(Hi)), Turn(Str(r2), Str(HiBell)) >>) :
        r1, r2 \in { RoleUser, RoleAssistant, RoleSystem } }

InitHistory ==
    /\ SeededStore
    /\ lastCall \in { [op |-> "history", history |-> h] : h \in LongHistories \cup RoleHistories }
    /\ ProcsIdle
    /\ ServeIdle
    /\ IngestIdle

\* chat-server.ts:97-100  the handler builds safeHistory from the body's history
BuildSafeHistory ==
    /\ lastCall.op = "history"
    /\ lastCall' = [op |-> "safeHistory", history |-> lastCall.history,
                    result |-> SafeHistory(lastCall.history)]
    /\ UNCHANGED <<storeVars, procVars, serveVars, setups>>

NextHistory == BuildSafeHistory

SpecHistory == InitHistory /\ [][NextHistory]_vars

\* A turn with a role and a text, both non-empty strings.
WellFormed(h) ==
    /\ IsStringValue(Prop(h, "role")) /\ Prop(h, "role").v # <<>>
    /\ IsStringValue(Prop(h, "text")) /\ Prop(h, "text").v # <<>>

\* The j-th smallest element of a set of indices.
Nth(K, j) == CHOOSE i \in K : Cardinality({ k \in K : k < i }) = j - 1

\* The turns at the indices K, in order, as they are forwarded.
ForwardedFrom(h, K) ==
    [j \in 1..Cardinality(K) |->
        [role |-> h[Nth(K, j)].role, text |-> sanitize(h[Nth(K, j)].text.v)]]

WellFormedIn(h, from) == { i \in from..Len(h) : WellFormed(h[i]) }

\* The turns the filter keeps: role and text are truthy, of whatever type.
KeptIn(h, from) ==
    { i \in from..Len(h) : Truthy(Prop(h[i], "role")) /\ Truthy(Prop(h[i], "text")) }

\* The index of the first of the last ten turns supplied.
LastTenFrom(h) == IF Len(h) > 10 THEN Len(h) - 9 ELSE 1

\* C13 (as amended): the forwarded history has at most 10 turns and consists,
\* in the caller's order, of the turns with a role and a text among the last
\* 10 turns supplied; well-formed turns before the last 10 supplied are never
\* forwarded.  No history is forwarded when one of the turns so kept has a
\* text that is no string.
C13_LastTenThenFilter ==
    (lastCall.op = "safeHistory") =>
        LET h == lastCall.history.v
            kept == KeptIn(h, LastTenFrom(h))
        IN  /\ lastCall.result.threw <=> (\E i \in kept : ~IsStringValue(h[i].text))
            /\ Len(lastCall.result.turns) <= 10
            /\ ~lastCall.result.threw => (lastCall.result.turns = ForwardedFrom(h, kept))

\* Of more than ten supplied turns, ten or more well-formed, fewer than ten
\* were forwarded: a malformed turn among the last ten took a place.
C13_Witness ==
    /\ lastCall.op = "safeHistory"
    /\ Len(lastCall.history.v) > 10
    /\ Cardinality(WellFormedIn(lastCall.history.v, 1)) >= 10
    /\ ~lastCall.result.threw
    /\ Len(lastCall.result.turns) = 9

\* The last ten elements of a set of indices.
LastTenOf(K) == { i \in K : Cardinality({ k \in K : k > i }) < 10 }

\* C13 as stated: when the supplied history has at least 10 well-formed
\* turns, exactly the 10 most recent well-formed turns are forwarded.
C13_Original ==
    (/\ lastCall.op = "safeHistory"
     /\ ~lastCall.result.threw
     /\ Cardinality(WellFormedIn(lastCall.history.v, 1)) >= 10) =>
        lastCall.result.turns =
            ForwardedFrom(lastCall.history.v, LastTenOf(WellFormedIn(lastCall.history.v, 1)))

\* C26: every history turn forwarded to the completion collaborator has
\* the role "user" or the role "assistant".
C26_RolesForwarded ==
    (lastCall.op = "safeHistory" /\ ~lastCall.result.threw) =>
        \A i \in 1..Len(lastCall.result.turns) :
            lastCall.result.turns[i].role \in { Str(RoleUser), Str(RoleAssistant) }

\* What holds of C26: a forwarded turn has the role its caller gave it.
RolesAsSupplied ==
    (lastCall.op = "safeHistory" /\ ~lastCall.result.threw) =>
        \A i \in 1..Len(lastCall.result.turns) :
            \E j \in 1..Len(lastCall.history.v) :
                lastCall.result.turns[i].role = Prop(lastCall.history.v[j], "role")

----------------------------------------------------------------------------
(* Claims about the listener *)

Listening == { p \in Ports : servers[p].state = "listening" }

\* C4: at most one chat listener accepts connections at any time, whatever the
\* sequence or interleaving of startChatServer calls: every listener started
\* earlier has been stopped.
C4_SingleListener == Cardinality(Listening) <= 1

\* The promise of call c is pending: an event of its server is still queued.
Pending(c) == \E i \in 1..Len(tickQueue) : tickQueue[i].call = c

\* The lowest port from q upwards that no other process holds.
FirstNotInUse(q) ==
    IF \E p \in q..MaxPort : portEnv[p] # "inuse"
    THEN CHOOSE p \in q..MaxPort : portEnv[p] # "inuse" /\ \A o \in q..(p - 1) : portEnv[o] = "inuse"
    ELSE MaxPort + 1

\* C14: a start that meets ports in use retries on the next higher port; its
\* promise never stays pending; when it resolves it reports a port, not below
\* the requested one, on which its listener is bound (for a single start, the
\* first port from the requested one upwards that no other process holds);
\* when it rejects, the error is not the port conflict.
C14_RetryNextPort ==
    /\ \A c \in 1..MaxStarts : Pending(c) ~> ~Pending(c)
    /\ [](calls.settled.state = "rejected" => calls.settled.error # "EADDRINUSE")
    /\ [][(calls'.settled # calls.settled /\ calls'.settled.state = "resolved") =>
             /\ servers'[calls'.settled.resultPort].state = "listening"
             /\ activeServer' = calls'.settled.resultPort
             /\ calls'.settled.resultPort >= calls'.requested[calls'.settled.call]
             /\ (calls'.started = 1) =>
                    (calls'.settled.resultPort = FirstNotInUse(calls'.requested[1]))]_vars

\* A start on a port held by another process resolved with the next port.
C14_Witness ==
    /\ calls.settled.state = "resolved"
    /\ portEnv[calls.requested[calls.settled.call]] = "inuse"
    /\ calls.settled.resultPort = calls.requested[calls.settled.call] + 1
    /\ servers[calls.settled.resultPort].state = "listening"

----------------------------------------------------------------------------
(* Claims about a chat exchange *)

PostChat(r) == r.path = "serve" /\ r.input.method = "POST" /\ r.input.url = "/chat"

MessageOf(r) == Prop(r.input.body.value, "message")

IsString(x) == x.t = "string"

\* The exchange asks for a reply: ragchat_test, or POST /chat with a body that
\* parses and carries a non-empty string message.
IsChatExchange(r) ==
    \/ r.path = "test"
    \/ /\ PostChat(r)
       /\ ~ParseThrows(r.input.body)
       /\ IsString(MessageOf(r))
       /\ MessageOf(r).v # <<>>

PlainPrompt(r) == [base |-> r.config.systemPrompt, template |-> "plain", context |-> <<>>]

HistoryThrows(r) == r.path = "serve" /\ SafeHistory(r.history).threw

\* C6 (as amended): a failure of the embedding collaborator or of the search
\* does not by itself fail the request.  The source list is empty, and the
\* completion collaborator is invoked, with the unmodified system prompt,
\* unless on the serve path a kept history turn has a text that is no string
\* (then the request ends in error before the completion is invoked).  The
\* request ends in a successful reply exactly when the completion succeeds,
\* and otherwise in error.
C6_RetrievalDegraded ==
    (req.pc # "none" /\ req.retrievalFailed) =>
        /\ req.sources = <<>>
        /\ req.llm.called <=> ~HistoryThrows(req)
        /\ req.llm.called => (req.llm.systemPrompt = PlainPrompt(req))
        /\ (req.pc = "done") =>
              /\ (req.result = "reply") <=> (req.completion = "reply")
              /\ (req.result = "reply" /\ req.path = "serve") => (req.status = 200)
              /\ (req.result # "reply") =>
                    /\ req.result = "error"
                    /\ HistoryThrows(req) \/ req.completion = "throw"

\* A POST /chat whose retrieval failed was answered 200 with no sources.
C6_Witness ==
    /\ req.pc = "done"
    /\ req.retrievalFailed
    /\ req.path = "serve"
    /\ req.status = 200
    /\ req.sources = <<>>
    /\ req.llm.systemPrompt = PlainPrompt(req)

\* C6 as stated: every request whose retrieval failed ends in a successful
\* reply with an empty source list, the completion collaborator having been
\* invoked with the unmodified system prompt.
C6_Original ==
    (req.pc = "done" /\ req.retrievalFailed) =>
        /\ req.llm.called
        /\ req.llm.systemPrompt = PlainPrompt(req)
        /\ req.result = "reply"
        /\ req.sources = <<>>

\* C7: a failure of the completion collaborator ends that request in error
\* (500 on the serve path, an error result on the test path), never in a 200
\* reply, and the step that handles it leaves every listener as it was.
C7_CompletionFatal ==
    /\ []((req.pc = "done" /\ req.completion = "throw") =>
             /\ req.result = "error"
             /\ req.status # 200
             /\ (req.path = "serve") => (req.status = 500))
    /\ [][(req.pc = "completing" /\ req'.completion = "throw") =>
             /\ servers' = servers
             /\ activeServer' = activeServer]_vars

\* The completion failed for a POST /chat, and its listener still listens.
C7_Witness ==
    /\ req.pc = "done"
    /\ req.completion = "throw"
    /\ req.path = "serve"
    /\ req.status = 500
    /\ servers[req.server].state = "listening"

\* C8 (as amended): ragchat_test addressed to a namespace that has no config
\* at that time ends in the not-found outcome without invoking either
\* collaborator, and no listener exists for a namespace that had no config when
\* its start was requested.  A running listener answers from the config it
\* captured at start: a chat request never ends in not-found there, and it
\* invokes the embedding collaborator also when the config has been removed
\* in the meantime.
C8_NotFound ==
    /\ (req.pc # "none" /\ req.path = "test" /\ ~req.configured) =>
          /\ req.pc = "done"
          /\ req.result = "notFound"
          /\ ~req.embed.called
          /\ ~req.llm.called
    /\ \A p \in Ports : (servers[p].state = "listening") => servers[p].config.exists
    /\ (req.pc # "none" /\ req.path = "serve") =>
          /\ req.config.exists
          /\ req.result # "notFound"
          /\ IsChatExchange(req) => req.embed.called

\* A listener served a chat request after its namespace's config was removed.
C8_Witness ==
    /\ req.pc = "done"
    /\ req.path = "serve"
    /\ ~req.configured
    /\ req.llm.called
    /\ req.result = "reply"

\* C8 as stated: a chat exchange addressed to a namespace without config at
\* the time of the request ends in not-found, no collaborator being invoked,
\* on the test path and on the serve path.
C8_Original ==
    (req.pc # "none" /\ IsChatExchange(req) /\ ~req.configured) =>
        /\ req.result = "notFound"
        /\ ~req.embed.called
        /\ ~req.llm.called

C10_MalformedIs400 ==
    (req.pc = "done" /\ PostChat(req) /\ ParseThrows(req.input.body)) =>
        (req.status = 400 /\ req.status # 500)

\* Text as sanitize leaves it: at most MAX_INPUT characters, none of them a
\* stripped control character.
IsSanitized(cs) == Len(cs) <= MAX_INPUT /\ \A i \in 1..Len(cs) : ~IsControl(cs[i])

\* C11: on the serve path and on the test path, every text handed to the
\* embedding collaborator, and the message and every history turn handed to
\* the completion collaborator, is sanitized.
C11_Sanitized ==
    (req.pc # "none") =>
        /\ req.embed.called => IsSanitized(req.embed.text)
        /\ req.llm.called =>
              /\ IsSanitized(req.llm.message)
              /\ \A i \in 1..Len(req.llm.history) : IsSanitized(req.llm.history[i].text)

\* C12: a malformed history turn never makes a chat request fail: a POST /chat
\* with an accepted message whose completion does not fail is answered 200,
\* the completion collaborator having been invoked.
C12_MalformedTurnDropped ==
    (req.pc = "done" /\ req.path = "serve" /\ IsChatExchange(req) /\ req.completion # "throw") =>
        (req.llm.called /\ req.status = 200)

----------------------------------------------------------------------------
(* Claims about deleteDomain *)

\* C20: after deleteDomain the namespace has no persisted state
\* (loadDomainConfig gives the absent value, loadVectors the empty list),
\* and deleting is idempotent: deleting a namespace that is already absent,
\* or deleting a second time, gives the state one delete gives.
C20_DeleteIdempotent ==
    /\ [](lastCall.op = "deleteDomain" =>
             /\ DirName(lastCall.domain) \notin dirs
             /\ loadDomainConfig(lastCall.domain) = NoConfig
             /\ loadVectors(lastCall.domain) = <<>>)
    /\ [][lastCall'.op = "deleteDomain" =>
             /\ \A d \in DirNames \ { DirName(lastCall'.domain) } :
                   /\ vectorsFile'[d] = vectorsFile[d]
                   /\ configFile'[d] = configFile[d]
                   /\ (d \in dirs') <=> (d \in dirs)
             /\ ( \/ ~lastCall'.existed
                  \/ (lastCall.op = "deleteDomain" /\ lastCall.domain = lastCall'.domain) ) =>
                   (dirs' = dirs /\ vectorsFile' = vectorsFile /\ configFile' = configFile)]_vars

\* A delete of a namespace whose directory was already gone has returned,
\* while another namespace keeps its documents.
C20_Witness ==
    /\ lastCall.op = "deleteDomain"
    /\ ~lastCall.existed
    /\ \E d \in DirNames : vectorsFile[d] # NoFile

----------------------------------------------------------------------------
(* The store directory under every operation and every name *)

\* A load that reads the file without asking whether it exists.
ReadUnchecked(file, none, default) ==
    IF file = none THEN [threw |-> TRUE, error |-> "ENOENT"]
    ELSE [threw |-> FALSE, value |-> file]

\* vector-store.ts:45-46 and 119-120  what a load returns or throws, given
\* the file's content and the value standing for "no file"
ReadOrDefault(file, none, default) ==
    IF file = none THEN [threw |-> FALSE, value |-> default]
    ELSE [threw |-> FALSE, value |-> file]

\* vector-store.ts:43-47  loadVectors as a call: its outcome, and the
\* directory that vectorsPath makes
LoadVectors(domain) ==
    /\ dirs' = domainDir(dirs, domain)
    /\ lastCall' = [op |-> "loadVectors", domain |-> domain,
                    had |-> vectorsFile[DirName(domain)] # NoFile,
                    outcome |-> ReadOrDefault(vectorsFile[DirName(domain)], NoFile, <<>>)]
    /\ UNCHANGED <<vectorsFile, configFile, procVars, setups, serveVars>>

\* vector-store.ts:115-121  loadDomainConfig as a call
LoadDomainConfig(domain) ==
    /\ dirs' = domainDir(dirs, domain)
    /\ lastCall' = [op |-> "loadDomainConfig", domain |-> domain,
                    had |-> configFile[DirName(domain)] # NoConfig,
                    outcome |-> ReadOrDefault(configFile[DirName(domain)], NoConfig, NoConfig)]
    /\ UNCHANGED <<vectorsFile, configFile, procVars, setups, serveVars>>

\* vector-store.ts:107-112  saveDomainConfig as a call
SaveDomainConfig(domain, systemPrompt) ==
    /\ dirs' = domainDir(dirs, domain)
    /\ configFile' = SavedConfig(configFile, domain, systemPrompt)
    /\ lastCall' = [op |-> "saveDomainConfig", domain |-> domain, systemPrompt |-> systemPrompt]
    /\ UNCHANGED <<vectorsFile, procVars, setups, serveVars>>

\* vector-store.ts:124-145  listDomains: an entry for every directory in the
\* store directory, configured or not (the order of readdirSync left out)
listDomains ==
    { [domain |-> IF configFile[d].exists THEN configFile[d].domain ELSE d,
       documentCount |-> Len(vectorsFile[d])] : d \in dirs \ { BaseDir } }

\* listDomains as a call: it reads, with loadDomainConfig and loadVectors,
\* only directories that exist
ListDomains ==
    /\ lastCall' = [op |-> "listDomains", result |-> listDomains]
    /\ UNCHANGED <<storeVars, procVars, setups, serveVars>>

FileDoc(domain) == MkDoc(<<domain, 1>>, [title |-> "t1", content |-> "c1", embedding |-> <<1, 0>>])

\* No store directory yet.
InitFiles ==
    /\ dirs = {}
    /\ vectorsFile = [d \in DirNames |-> NoFile]
    /\ configFile = [d \in DirNames |-> NoConfig]
    /\ lastCall = NoCall
    /\ ProcsIdle
    /\ ServeIdle
    /\ IngestIdle

NextFiles ==
    \/ \E domain \in Domains : AddDocument(domain, FileDoc(domain))
    \/ \E domain \in Domains : SaveDomainConfig(domain, "prompt1")
    \/ \E domain \in Domains : DeleteDomain(domain)
    \/ \E domain \in Domains : LoadVectors(domain)
    \/ \E domain \in Domains : LoadDomainConfig(domain)
    \/ \E domain \in Domains : SearchByEmbedding(domain, <<1, 0>>, SearchLimit, DefaultMinScore)
    \/ ListDomains

SpecFiles == InitFiles /\ [][NextFiles]_vars

WriteOps == { "addDocument", "saveDomainConfig", "deleteDomain" }

ReadOps == { "loadVectors", "loadDomainConfig", "searchByEmbedding" }

\* C21: a store operation addressed to the name A changes, for no other name
\* B, the documents or the config read back for B.
C21_Isolated ==
    [][(lastCall'.op \in WriteOps) =>
          \A B \in Domains \ { lastCall'.domain } :
              /\ loadVectors(B)' = loadVectors(B)
              /\ loadDomainConfig(B)' = loadDomainConfig(B)]_vars

\* What holds of C21: an operation addressed to a name changes what is read
\* back only for the names of the same directory, unless it deletes the name
\* of the store directory itself.
IsolatedDirectories ==
    [][(lastCall'.op \in WriteOps /\ ~(lastCall'.op = "deleteDomain" /\ DirName(lastCall'.domain) = BaseDir)) =>
          \A B \in Domains :
              (DirName(B) # DirName(lastCall'.domain)) =>
                  /\ loadVectors(B)' = loadVectors(B)
                  /\ loadDomainConfig(B)' = loadDomainConfig(B)]_vars

\* C21 read with a namespace identified by its sanitized name: an operation
\* addressed to a name changes nothing that is read back for a name of
\* another directory.  The delete of "." removes every directory.
IsolatedSanitizedNames ==
    [][(lastCall'.op \in WriteOps) =>
          \A B \in Domains :
              (DirName(B) # DirName(lastCall'.domain)) =>
                  /\ loadVectors(B)' = loadVectors(B)
                  /\ loadDomainConfig(B)' = loadDomainConfig(B)]_vars

\* C25: loadVectors on a namespace without stored documents returns the
\* empty list, loadDomainConfig on a namespace without config returns the
\* absent value, and neither throws, whether the namespace was never created
\* or was deleted; with documents or a config, they return what is stored.
C25_LoadAbsent ==
    /\ (lastCall.op = "loadVectors") =>
          /\ ~lastCall.outcome.threw
          /\ ~lastCall.had => (lastCall.outcome.value = <<>>)
          /\ lastCall.outcome.value = loadVectors(lastCall.domain)
    /\ (lastCall.op = "loadDomainConfig") =>
          /\ ~lastCall.outcome.threw
          /\ ~lastCall.had => (lastCall.outcome.value = NoConfig)
          /\ lastCall.outcome.value = loadDomainConfig(lastCall.domain)

\* loadVectors returned the empty list for a namespace while another
\* namespace held a document and a config.
C25_Witness ==
    /\ lastCall.op = "loadVectors"
    /\ ~lastCall.had
    /\ lastCall.outcome = [threw |-> FALSE, value |-> <<>>]
    /\ \E d \in DirNames : vectorsFile[d] # NoFile /\ configFile[d].exists

\* C27: loadVectors, loadDomainConfig and searchByEmbedding leave the
\* persisted state as it was: no directory is made, and listDomains returns
\* after the read what it returned before.
C27_ReadsDoNotWrite ==
    [][(lastCall'.op \in ReadOps) =>
          /\ dirs' = dirs
          /\ vectorsFile' = vectorsFile
          /\ configFile' = configFile
          /\ listDomains' = listDomains]_vars

\* What holds of C27: a read changes no file, and no directory that exists.
ReadsKeepFiles ==
    [][(lastCall'.op \in ReadOps) =>
          /\ vectorsFile' = vectorsFile
          /\ configFile' = configFile
          /\ dirs \subseteq dirs'
          /\ dirs' \ dirs \subseteq { DirName(lastCall'.domain) }]_vars

----------------------------------------------------------------------------
(* cosineSimilarity and the score floor on their own *)

Components == { -1, 0, 1 }

Vectors == UNION { [1..k -> Components] : k \in 0..MaxDim }

\* Two stored documents: the first with the embedding [1, 0], the second
\* with the embedding under test.
ScoreDocs(e) ==
    << MkDoc(1, [title |-> "t1", content |-> "c1", embedding |-> <<1, 0>>]),
       MkDoc(2, [title |-> "t2", content |-> "c2", embedding |-> e]) >>

InitScore ==
    /\ SeededStore
    /\ lastCall \in { [op |-> "vectors", query |-> q, embedding |-> e] : q, e \in Vectors }
    /\ ProcsIdle
    /\ ServeIdle
    /\ IngestIdle

\* vector-store.ts:89-103  the score of the query and the embedding, and the
\* search of the two documents with the default floor
ScoreAndSearch ==
    /\ lastCall.op = "vectors"
    /\ lastCall' = [op |-> "scored", query |-> lastCall.query, embedding |-> lastCall.embedding,
                    score |-> cosineSimilarity(lastCall.query, lastCall.embedding),
                    result |-> searchByEmbedding(ScoreDocs(lastCall.embedding), lastCall.query,
                                                 SearchLimit, DefaultMinScore)]
    /\ UNCHANGED <<storeVars, procVars, serveVars, setups>>

NextScore == ScoreAndSearch

SpecScore == InitScore /\ [][NextScore]_vars

IsZeroVector(v) == \A i \in 1..Len(v) : v[i] = 0

\* C23: the score of a query and a stored embedding is 0 when either is the
\* zero vector or their lengths differ, and a search with the floor 0.3 then
\* does not return the document; the query [1, 0] against the documents
\* [1, 0] and [0, 1] returns the first document and nothing else.
C23_ZeroScore ==
    (lastCall.op = "scored") =>
        /\ ( \/ IsZeroVector(lastCall.query)
             \/ IsZeroVector(lastCall.embedding)
             \/ Len(lastCall.query) # Len(lastCall.embedding) ) =>
               /\ lastCall.score.n = 0
               /\ \A i \in 1..Len(lastCall.result) : lastCall.result[i].id # 2
        /\ (lastCall.query = <<1, 0>> /\ lastCall.embedding = <<0, 1>>) =>
               /\ Len(lastCall.result) = 1
               /\ lastCall.result[1].id = 1
               /\ lastCall.result[1].score.n = lastCall.result[1].score.d

\* The query [1, 0] met an embedding of another length and scored 0 against
\* it, and the search returned the document [1, 0] alone.
C23_Witness ==
    /\ lastCall.op = "scored"
    /\ lastCall.query = <<1, 0>>
    /\ lastCall.embedding = <<1>>
    /\ lastCall.score.n = 0
    /\ Len(lastCall.result) = 1
    /\ lastCall.result[1].id = 1

----------------------------------------------------------------------------
(* sanitize on its own: texts around the length limit *)

\* A control character that is stripped (bell), one that is kept (tab), a letter.
TextChars == { 7, 9, 104 }

ShortTexts == UNION { [1..k -> TextChars] : k \in 0..MaxText }

Padding(n) == [i \in 1..n |-> 104]

\* Texts whose varied part lies across the limit of MAX_INPUT characters.
LongTexts == { Padding(n) \o t : n \in (MAX_INPUT - 2)..MAX_INPUT, t \in ShortTexts }

InitSanitize ==
    /\ SeededStore
    /\ lastCall \in { [op |-> "text", text |-> t] : t \in ShortTexts \cup LongTexts }
    /\ ProcsIdle
    /\ ServeIdle
    /\ IngestIdle

\* chat-server.ts:74 and 100  sanitize applied, and applied to its result
Sanitize ==
    /\ lastCall.op = "text"
    /\ lastCall' = [op |-> "sanitized", text |-> lastCall.text,
                    once |-> sanitize(lastCall.text),
                    twice |-> sanitize(sanitize(lastCall.text))]
    /\ UNCHANGED <<storeVars, procVars, serveVars, setups>>

NextSanitize == Sanitize

SpecSanitize == InitSanitize /\ [][NextSanitize]_vars

\* The character codes 0-8, 11, 12 and 14-31.
StrippedCodes == (0..8) \cup { 11, 12 } \cup (14..31)

\* C24: sanitize(sanitize(x)) = sanitize(x) for every text x; the result has
\* at most 1000 characters, none of them a stripped control character.
C24_SanitizeIdempotent ==
    (lastCall.op = "sanitized") =>
        /\ lastCall.twice = lastCall.once
        /\ Len(lastCall.once) <= 1000
        /\ \A i \in 1..Len(lastCall.once) : lastCall.once[i] \notin StrippedCodes

\* A text longer than the limit, with a control character before the limit
\* and one after it, came out shorter than the limit.
C24_Witness ==
    /\ lastCall.op = "sanitized"
    /\ Len(lastCall.text) > 1000
    /\ lastCall.text[1000] = 7
    /\ lastCall.text[1001] = 7
    /\ Len(lastCall.once) = 999
    /\ lastCall.twice = lastCall.once

----------------------------------------------------------------------------
(* Claims about the prompt of a chat exchange *)

\* The retrieval step of the exchange has run.
Retrieved(r) == r.pc \in { "completing", "done" } /\ r.embed.called

\* The prompt with the contents of the results rs appended, in their order.
PromptWith(r, rs) ==
    IF rs # <<>>
    THEN [base |-> r.config.systemPrompt, template |-> r.path, context |-> Contents(rs)]
    ELSE PlainPrompt(r)

\* The step in which the embedding settles hands callLLM the prompt made of
\* the results of the search of the documents stored at that moment.
PromptOfSearch ==
    (req.pc = "embedding" /\ req'.pc = "completing") =>
        IF req'.retrievalFailed
        THEN req'.sources = <<>> /\ req'.llm.systemPrompt = PlainPrompt(req)
        ELSE \E q \in EmbedQueries :
                 LET rs == searchByEmbedding(loadVectors(req.domain), q, SearchLimit, DefaultMinScore)
                 IN  /\ req'.sources = Sources(rs, req.path)
                     /\ req'.llm.systemPrompt = PromptWith(req, rs)

\* C22: the completion collaborator is invoked in every exchange whose
\* retrieval step has run, with the namespace's system prompt, to which the
\* contents of the results are appended in rank order exactly when the search
\* returned a result; without a result the prompt is the system prompt alone
\* and the source list is empty.
C22_PromptFromResults ==
    /\ []((req.pc # "none" /\ Retrieved(req)) =>
             /\ req.llm.called
             /\ req.llm.systemPrompt.base = req.config.systemPrompt
             /\ (req.sources # <<>>) <=> (req.llm.systemPrompt.template # "plain")
             /\ Len(req.llm.systemPrompt.context) = Len(req.sources))
    /\ [][PromptOfSearch]_vars

\* What holds of C22: the prompt is as C22 says in every exchange that
\* reaches the completion collaborator, and an exchange whose retrieval step
\* has run reaches it unless sanitizing its history threw.
PromptAssembly ==
    /\ []((req.pc # "none" /\ Retrieved(req)) =>
             /\ req.llm.called <=> ~HistoryThrows(req)
             /\ req.llm.called =>
                   /\ req.llm.systemPrompt.base = req.config.systemPrompt
                   /\ (req.sources # <<>>) <=> (req.llm.systemPrompt.template # "plain")
                   /\ Len(req.llm.systemPrompt.context) = Len(req.sources))
    /\ [][PromptOfSearch]_vars

----------------------------------------------------------------------------
(* A listener while its namespace is overwritten or deleted *)

\* A document ingested after the listener was started.
LaterDoc == MkDoc(<<SeededDomain, 4>>, [title |-> "t4", content |-> "c4", embedding |-> <<1, 0>>])

LaterPrompt == "prompt3"

PlainPost == [method |-> "POST", url |-> "/chat", body |-> Json(Body(Str(Hi), Undefined))]

\* Listeners of SeededDomain and chat requests to them, while the config of
\* the namespace is overwritten, documents are added, and the namespace is
\* deleted.
NextCapture ==
    \/ RagchatServe(SeededDomain, DefaultPort)
    \/ ListeningEvent
    \/ ErrorEvent
    \/ \E s \in Ports : HttpRequest(s, PlainPost)
    \/ \E embedded \in EmbedOutcomes : EmbedReturn(embedded)
    \/ \E outcome \in { "reply", "throw" } : CompleteReturn(outcome)
    \/ SaveDomainConfig(SeededDomain, LaterPrompt)
    \/ AddDocument(SeededDomain, LaterDoc)
    \/ DeleteDomain(SeededDomain)

SpecCapture == InitServe /\ [][NextCapture]_vars

\* A listener is there after a step because it was there before it,
\* unchanged, or because the step made it with the config stored at that
\* moment.
ConfigCaptured ==
    \A p \in Ports :
        servers'[p].state = "listening" =>
            \/ servers'[p] = servers[p]
            \/ /\ loadDomainConfig(servers'[p].domain).exists
               /\ servers'[p].config = loadDomainConfig(servers'[p].domain)

\* A chat request that a listener takes carries the config of that listener.
RequestCarriesConfig ==
    (req.pc \in { "none", "done" } /\ req' # req /\ req'.path = "serve") =>
        /\ servers[req'.server].state = "listening"
        /\ req'.config = servers[req'.server].config

\* The search of a chat request reads the documents stored when the
\* embedding settles; the prompt is built on the config the request carries.
SearchReadsStored ==
    (req.pc = "embedding" /\ req.path = "serve" /\ req'.pc = "completing") =>
        /\ req'.llm.systemPrompt.base = req.config.systemPrompt
        /\ req'.retrievalFailed \/
               \E q \in EmbedQueries :
                   req'.sources =
                       Sources(searchByEmbedding(loadVectors(req.domain), q, SearchLimit,
                                                 DefaultMinScore), "serve")

\* C29: a listener answers every chat request with the system prompt that
\* the config of its namespace held when the listener was started, whatever
\* is saved to or deleted from the namespace afterwards, and searches the
\* documents stored at the time of the request.
C29_PromptCaptured ==
    [][ConfigCaptured /\ RequestCarriesConfig /\ SearchReadsStored]_vars

\* A request answered with the prompt of the start of the listener after the
\* config was overwritten, with a document among its sources that was added
\* after the start.
C29_Witness ==
    /\ req.pc = "done"
    /\ req.path = "serve"
    /\ req.status = 200
    /\ req.llm.called
    /\ req.stored.exists
    /\ req.stored.systemPrompt = LaterPrompt
    /\ req.llm.systemPrompt.base = "prompt1"
    /\ \E i \in 1..Len(req.sources) : req.sources[i].id = LaterDoc.id

\* A request answered by a listener whose namespace was deleted: the prompt
\* of the start, and no source.
ServedAfterDelete ==
    /\ req.pc = "done"
    /\ req.path = "serve"
    /\ req.status = 200
    /\ ~req.stored.exists
    /\ req.llm.systemPrompt.base = "prompt1"
    /\ req.sources = <<>>

----------------------------------------------------------------------------
(* Claims about a start that finds no config *)

\* The step is the 'error' handler calling startChatServer again for a
\* namespace whose config is gone.
RetryFindsNoConfig ==
    /\ tickQueue # <<>>
    /\ Head(tickQueue).type = "error"
    /\ Head(tickQueue).code = "EADDRINUSE"
    /\ calls'.started = calls.started
    /\ tickQueue' # tickQueue
    /\ NotConfigured(loadDomainConfig(Head(tickQueue).domain))

\* The step settles a start as not configured (startChatServer) or as not
\* found (ragchat_serve).
SettlesWithoutConfig ==
    /\ calls'.settled # calls.settled
    /\ \/ calls'.settled.state = "rejected" /\ calls'.settled.error = "not configured"
       \/ calls'.settled.state = "notFound"

ListenersUnchanged == servers' = servers /\ activeServer' = activeServer

\* C30: startChatServer for a namespace without config rejects with the
\* not-configured error, and a start that ends for want of a config leaves
\* every listener and the active listener as they were.
C30_NotConfiguredKeepsListener ==
    [][/\ RetryFindsNoConfig =>
              calls'.settled = Settled(Head(tickQueue).call, "rejected", 0, "not configured")
       /\ SettlesWithoutConfig => ListenersUnchanged]_vars

\* A start rejected as not configured while the listener of another
\* namespace is active and listening.
C30_Witness ==
    /\ calls.settled.state = "rejected"
    /\ calls.settled.error = "not configured"
    /\ activeServer # 0
    /\ servers[activeServer].state = "listening"
    /\ servers[activeServer].domain = BareDomain

====
